---- MODULE Spec2Model ----
(***************************************************************************)
(* Model of pytorch_tabular's CategoryEmbeddingBackbone /                  *)
(* CategoryEmbeddingModel (category_embedding_model.py) and MDNModel       *)
(* (mixture_density/mdn.py).                                               *)
(*                                                                         *)
(* Conventions                                                             *)
(*  - A Python Optional is a set with at most one element: None == {},     *)
(*    Some(v) == {v}.                                                      *)
(*  - A tensor is a batch: a sequence of rows of equal length, one row    *)
(*    per record.  Its entries are terms (El) that name the number the     *)
(*    code computes, so two entries are equal exactly when the code        *)
(*    computes them the same way from the same numbers.                    *)
(*  - A module is in training or in evaluation mode; the mode is an input  *)
(*    of the forward pass, and so is the random draw of the dropout layer. *)
(*  - Dropout probabilities are written in tenths (5 is p = 0.5).          *)
(*  - A raised exception is the name of its class; "none" is no exception. *)
(***************************************************************************)
EXTENDS Integers, Sequences, FiniteSets, TLC

VARIABLES
    cls,              \* the class the caller instantiates
    pc,               \* "new", "constructed" or "failed"
    error,            \* the exception that ended construction ("none" otherwise)
    config,           \* the configuration record (self.hparams is this object)
    kwargs,           \* the keyword arguments of the constructor call
    inferred_config,  \* MDNModel.inferred_config
    backbone,         \* self.backbone (Optional)
    head,             \* self.head (Optional)
    log,              \* what logger.warning / logger.error emitted, in order
    WANDB_INSTALLED,  \* module flag of mdn.py
    step,             \* the last operation, when it was one of the model
    fwd               \* the last operation, when it was a call of the backbone

vars == <<cls, pc, error, config, kwargs, inferred_config, backbone, head,
          log, WANDB_INSTALLED, step, fwd>>

----------------------------------------------------------------------------
(* Bounds of the model *)

MaxCatCols == 1      \* categorical columns / embedding tables
MaxCont == 1         \* continuous columns
MaxTrainingPasses == 1 \* batches a batch-norm layer counts in a behaviour
MaxLambda == 1       \* largest regularization coefficient
MaxOutputDim == 2    \* largest output_dim
MaxGaussian == 2     \* largest num_gaussian

----------------------------------------------------------------------------
(* Generic helpers *)

None == {}
Some(v) == {v}
Get(o) == CHOOSE v \in o : TRUE

RECURSIVE SumSeq(_)
SumSeq(s) == IF s = <<>> THEN 0 ELSE Head(s) + SumSeq(Tail(s))

RECURSIVE Flatten(_)
Flatten(ss) == IF ss = <<>> THEN <<>> ELSE Head(ss) \o Flatten(Tail(ss))

Abs(n) == IF n < 0 THEN -n ELSE n

RECURSIVE Pow(_, _)
Pow(b, e) == IF e = 0 THEN 1 ELSE b * Pow(b, e - 1)

SeqsUpTo(S, n) == UNION {[1..k -> S] : k \in 0..n}

----------------------------------------------------------------------------
(* Tensor primitives used by the backbone *)

\* A tensor element is a term that names the number it holds:
\*   value            <<v>>            the input number v
\*   weight           <<i, c, k>>      entry k of row c of embedding table i
\*   scaled           <<i, c, k, p>>   that entry divided by 1 - p/10
\*   zero             <<>>             0
\*   batch_normalized <<k, v, col>>    v normalized with the mean and variance
\*                                     of col, the values of feature k in the
\*                                     batch (weight and bias of feature k)
\*   running_normalized <<k, v>>       v normalized with the running mean and
\*                                     variance of feature k, which h (the
\*                                     batches seen in training) determines
El(f, x, h) == [f |-> f, x |-> x, h |-> h]

Rows(m) == Len(m)
Cols(m) == Len(m[1])
Column(m, k) == [r \in 1..Len(m) |-> m[r][k]]

\* the input numbers of a matrix as tensor elements
Values(m) ==
    [r \in 1..Len(m) |-> [k \in 1..Len(m[r]) |-> El("value", <<m[r][k]>>, <<>>)]]

\* torch.cat(ms, 1) of matrices with the same number n of rows
Cat1(ms, n) ==
    [r \in 1..n |-> Flatten([j \in 1..Len(ms) |-> ms[j][r]])]

\* nn.Embedding(card, width) of table i applied to a column of codes: one row
\* of the table for every row of the batch.
Embedding(i, dims, codes) ==
    [r \in 1..Len(codes) |->
        [k \in 1..dims[2] |-> El("weight", <<i, codes[r], k>>, <<>>)]]

\* nn.Dropout(p): the identity in evaluation mode; in training mode the
\* entries at the positions of mask (the random draw) are zeroed and the
\* others divided by 1 - p; p = 1 zeroes everything.
Dropout(p, m, mask, training) ==
    IF ~training THEN m
    ELSE [r \in 1..Len(m) |->
            [k \in 1..Len(m[r]) |->
                IF p >= 10 \/ <<r, k>> \in mask THEN El("zero", <<>>, <<>>)
                ELSE El("scaled", m[r][k].x \o <<p>>, <<>>)]]

\* nn.BatchNorm1d(num_features) applied to the input numbers m (at least one
\* row).  In training mode the layer first counts the batch, then refuses a
\* batch of one row (ValueError).  An input without entries is returned as
\* it is (scaled by weight[0], which a layer of no features does not have)
\* before the width is looked at and without touching the running
\* statistics.  A width other than num_features is a RuntimeError.
\* Otherwise, in training mode the batch is normalized with its own
\* statistics and the running statistics take the batch in; in evaluation
\* mode the running statistics normalize.
BatchNorm1d(layer, m, training) ==
    LET counted == IF training
                   THEN [layer EXCEPT !.num_batches_tracked = @ + 1]
                   ELSE layer
        Failed(e) == [exc |-> e, val |-> <<>>, layer |-> counted]
    IN  IF training /\ Rows(m) = 1 THEN Failed("ValueError")
        ELSE IF Cols(m) = 0
        THEN IF layer.num_features = 0 THEN Failed("IndexError")
             ELSE [exc |-> "none", val |-> Values(m), layer |-> counted]
        ELSE IF Cols(m) # layer.num_features THEN Failed("RuntimeError")
        ELSE IF training
        THEN [exc |-> "none",
              val |-> [r \in 1..Rows(m) |->
                         [k \in 1..Cols(m) |->
                            El("batch_normalized",
                               <<k, m[r][k]>> \o Column(m, k), <<>>)]],
              layer |-> [counted EXCEPT !.seen = Append(@, m)]]
        ELSE [exc |-> "none",
              val |-> [r \in 1..Rows(m) |->
                         [k \in 1..Cols(m) |->
                            El("running_normalized", <<k, m[r][k]>>,
                               layer.seen)]],
              layer |-> layer]

\* The feed-forward block applied to what unpack_input returned: a tensor of
\* output_dim columns computed from the rows of u; anything that is not a
\* tensor of in_units columns is an error.
linear_layers_forward(layers, u) ==
    LET Failed(e) == [kind |-> "error", rows |-> 0, width |-> 0, of |-> <<>>,
                      exc |-> e]
    IN  IF u.kind = "error" THEN Failed(u.exc)
        ELSE IF u.kind # "tensor" THEN Failed("TypeError")
        ELSE IF Cols(u.val) # layers.in_units THEN Failed("RuntimeError")
        ELSE [kind |-> "tensor", rows |-> Rows(u.val),
              width |-> layers.output_dim, of |-> u.val, exc |-> "none"]

----------------------------------------------------------------------------
(* CategoryEmbeddingBackbone *)

\* nn.BatchNorm1d(n) as constructed: no batch counted, and none taken into
\* the running statistics
NewBatchNorm(n) == [num_features |-> n, num_batches_tracked |-> 0, seen |-> <<>>]

\* CEB_build_network with the dropout layer created on the wrong condition
\* (continuous_dim tested where embedded_cat_dim is meant)
CEB_build_network_dropout_on_continuous(hp) ==
    LET in_units == hp.embedded_cat_dim + hp.continuous_dim
        wants_dropout == hp.embedding_dropout # 0 /\ hp.continuous_dim # 0
    IN  IF wants_dropout /\ (hp.embedding_dropout < 0 \/ hp.embedding_dropout > 10)
        THEN [error |-> "ValueError", obj |-> None]
        ELSE [error |-> "none",
              obj |-> Some(
                [hparams |-> hp,
                 embd_dropout |-> IF wants_dropout
                                  THEN Some(hp.embedding_dropout) ELSE None,
                 linear_layers |-> [in_units |-> in_units,
                                    output_dim |-> hp.head_config.layers_out],
                 output_dim |-> hp.head_config.layers_out,
                 embedding_layers |-> hp.embedding_dims,
                 normalizing_batch_norm |->
                     IF hp.batch_norm_continuous_input
                     THEN Some(NewBatchNorm(hp.continuous_dim)) ELSE None])]

\* _build_network: the result of CategoryEmbeddingBackbone(config)
CEB_build_network(hp) ==
    LET in_units == hp.embedded_cat_dim + hp.continuous_dim
        wants_dropout == hp.embedding_dropout # 0 /\ hp.embedded_cat_dim # 0
    IN  IF wants_dropout /\ (hp.embedding_dropout < 0 \/ hp.embedding_dropout > 10)
        THEN [error |-> "ValueError", obj |-> None]
        ELSE [error |-> "none",
              obj |-> Some(
                [hparams |-> hp,
                 embd_dropout |-> IF wants_dropout
                                  THEN Some(hp.embedding_dropout) ELSE None,
                 linear_layers |-> [in_units |-> in_units,
                                    output_dim |-> hp.head_config.layers_out],
                 output_dim |-> hp.head_config.layers_out,
                 embedding_layers |-> hp.embedding_dims,
                 normalizing_batch_norm |->
                     IF hp.batch_norm_continuous_input
                     THEN Some(NewBatchNorm(hp.continuous_dim)) ELSE None])]

\* A value held by the local x of unpack_input, or the exception raised:
\* kind is "tensor" (val), "dict" (the input mapping itself, in dict) or
\* "error" (exc); applied lists the layers and concatenations run so far and
\* bn is the batch-normalization layer as the call leaves it.
Tensor(v, ap, bn) ==
    [kind |-> "tensor", val |-> v, dict |-> None, exc |-> "none",
     applied |-> ap, bn |-> bn]
Mapping(x, bn) ==
    [kind |-> "dict", val |-> <<>>, dict |-> Some(x), exc |-> "none",
     applied |-> <<>>, bn |-> bn]
Raised(e, ap, bn) ==
    [kind |-> "error", val |-> <<>>, dict |-> None, exc |-> e,
     applied |-> ap, bn |-> bn]

\* Lines 48-54: the embedding path of unpack_input
CEB_embed(b, x, mask, training) ==
    LET hp == b.hparams
        layers == b.embedding_layers
        cat == x.categorical
        bn == b.normalizing_batch_norm
    IN  IF Len(layers) > Cols(cat)
        THEN Raised("IndexError",
                    IF Cols(cat) > 0 THEN <<"embedding">> ELSE <<>>, bn)
        ELSE IF \E i \in 1..Len(layers), r \in 1..Rows(cat) :
                    cat[r][i] >= layers[i][1]
        THEN Raised("IndexError", <<"embedding">>, bn)
        ELSE IF Len(layers) = 0
        THEN Raised("RuntimeError", <<>>, bn)
        ELSE LET e == Cat1([i \in 1..Len(layers) |->
                               Embedding(i, layers[i], Column(cat, i))],
                           Rows(cat))
                 ap == <<"embedding", "cat_embeddings">>
             IN  IF hp.embedding_dropout > 0
                 THEN IF b.embd_dropout = None
                      THEN Raised("AttributeError", ap, bn)
                      ELSE Tensor(Dropout(Get(b.embd_dropout), e, mask, training),
                                  Append(ap, "embd_dropout"), bn)
                 ELSE Tensor(e, ap, bn)

\* Lines 56-63: the continuous path of unpack_input, given the value r that
\* the embedding path left in x
CEB_continuous(b, x, r, training) ==
    LET hp == b.hparams
        cont == x.continuous
    IN  IF ~hp.batch_norm_continuous_input
        THEN IF hp.embedded_cat_dim # 0
             THEN Tensor(Cat1(<<r.val, Values(cont)>>, Rows(cont)),
                         Append(r.applied, "cat_continuous"), r.bn)
             ELSE Tensor(Values(cont), r.applied, r.bn)
        ELSE IF b.normalizing_batch_norm = None
        THEN Raised("AttributeError", r.applied, r.bn)
        ELSE LET n == BatchNorm1d(Get(b.normalizing_batch_norm), cont, training)
                 ap == Append(r.applied, "normalizing_batch_norm")
             IN  IF n.exc # "none" THEN Raised(n.exc, ap, Some(n.layer))
                 ELSE IF hp.embedded_cat_dim # 0
                 THEN Tensor(Cat1(<<r.val, n.val>>, Rows(cont)),
                             Append(ap, "cat_continuous"), Some(n.layer))
                 ELSE Tensor(n.val, ap, Some(n.layer))

\* unpack_input taking the embedding path whenever embedding tables exist
unpack_input_embeds_by_tables(b, x, mask, training) ==
    LET hp == b.hparams
        r1 == IF Len(b.embedding_layers) # 0 THEN CEB_embed(b, x, mask, training)
              ELSE Mapping(x, b.normalizing_batch_norm)
    IN  IF r1.kind = "error" THEN r1
        ELSE IF hp.continuous_dim # 0 THEN CEB_continuous(b, x, r1, training)
        ELSE r1

\* unpack_input taking the continuous path whenever the input carries
\* continuous columns
unpack_input_continuous_by_input(b, x, mask, training) ==
    LET hp == b.hparams
        r1 == IF hp.embedded_cat_dim # 0 THEN CEB_embed(b, x, mask, training)
              ELSE Mapping(x, b.normalizing_batch_norm)
    IN  IF r1.kind = "error" THEN r1
        ELSE IF Cols(x.continuous) # 0 THEN CEB_continuous(b, x, r1, training)
        ELSE r1

\* unpack_input(x): x is the input mapping, mask the random draw of the
\* dropout layer and training the mode of the module.  The local x starts as
\* the input mapping itself and is returned as it is when neither branch
\* rebinds it.
unpack_input(b, x, mask, training) ==
    LET hp == b.hparams
        r1 == IF hp.embedded_cat_dim # 0 THEN CEB_embed(b, x, mask, training)
              ELSE Mapping(x, b.normalizing_batch_norm)
    IN  IF r1.kind = "error" THEN r1
        ELSE IF hp.continuous_dim # 0 THEN CEB_continuous(b, x, r1, training)
        ELSE r1

\* forward(x) on the backbone b: what unpack_input returned (unpacked), what
\* the feed-forward block made of it (out) and the backbone as the pass leaves
\* it.  A call of unpack_input on its own is the same up to out.
CEB_forward(b, x, mask, training) ==
    LET u == unpack_input(b, x, mask, training)
    IN  [x |-> x, mask |-> mask, training |-> training,
         before |-> b, unpacked |-> u,
         out |-> linear_layers_forward(b.linear_layers, u),
         after |-> [b EXCEPT !.normalizing_batch_norm = u.bn]]

\* the batches the batch-norm layer of b has counted
Tracked(b) ==
    IF b.normalizing_batch_norm = None THEN 0
    ELSE Get(b.normalizing_batch_norm).num_batches_tracked

\* the positions of the embedded tensor the dropout layer draws at
DropoutPositions(b, x, training) ==
    IF /\ training
       /\ b.hparams.embedded_cat_dim # 0
       /\ b.hparams.embedding_dropout > 0
       /\ b.embd_dropout # None
       /\ Len(b.embedding_layers) > 0
       /\ Len(b.embedding_layers) <= Cols(x.categorical)
    THEN (1..Rows(x.categorical))
            \X (1..SumSeq([i \in 1..Len(b.embedding_layers) |->
                              b.embedding_layers[i][2]]))
    ELSE {}

----------------------------------------------------------------------------
(* Exceptions and the result of running a constructor *)

Exc(name, msg) == [exc |-> name, msg |-> msg]
NoError == Exc("none", "")

\* What a constructor leaves behind: the exception (if any), the configuration
\* object as it then is, and the attributes set on self so far.
Built(err, cfg, ic, b, h, lg) ==
    [error |-> err, config |-> cfg, inferred_config |-> ic,
     backbone |-> b, head |-> h, log |-> lg]

----------------------------------------------------------------------------
(* CategoryEmbeddingModel *)

\* CategoryEmbeddingModel._build_network
CEM_build_network(hp) ==
    LET b == CEB_build_network(hp)
    IN  IF b.error # "none"
        THEN Built(Exc(b.error, "dropout probability has to be between 0 and 1"),
                   hp, None, None, None, <<>>)
        ELSE Built(NoError, hp, None, b.obj,
                   Some([in_features |-> Get(b.obj).output_dim,
                         out_features |-> hp.output_dim]),
                   <<>>)

\* CategoryEmbeddingModel.extract_embedding
extract_embedding(b) == b.embedding_layers

----------------------------------------------------------------------------
(* MDNModel: construction *)

\* The names the package models exports: a configuration class names the
\* backbone it belongs to; a name that is no configuration class resolves too.
Models ==
    [CategoryEmbeddingModelConfig |->
        [is_model_config |-> TRUE, backbone_name |-> "CategoryEmbeddingBackbone"],
     CategoryEmbeddingModel |->
        [is_model_config |-> FALSE, backbone_name |-> ""]]

\* getattr(models, name): attribute lookup on a module raises AttributeError
\* for a name the module does not have.
getattr_models(name) ==
    IF name \in DOMAIN Models
    THEN [exc |-> "none", value |-> Some(Models[name])]
    ELSE [exc |-> "AttributeError", value |-> None]

\* safe_merge_config(config, inferred_config) of base_model, which is not in
\* the source: the backbone configuration together with the fields of the
\* inferred configuration ic.  The two name different fields; what the helper
\* does with a field both name, or with a null inferred configuration, is
\* not known, and no scenario has either.
safe_merge_config(bcfg, ic) ==
    [k \in (DOMAIN bcfg) \cup (DOMAIN ic) |->
        IF k \in DOMAIN ic THEN ic[k] ELSE bcfg[k]]

\* _get_head_from_config writing the backbone's width into a second field
MDN_get_head_from_config_writes_output_dim(hp, b) ==
    LET hp2 == [hp EXCEPT !.head_config.input_dim = Some(b.output_dim),
                          !.output_dim = b.output_dim]
    IN  [hparams |-> hp2,
         head |-> [name |-> hp2.head, hparams |-> hp2.head_config]]

\* MDNModel._get_head_from_config: writes the backbone's width into the
\* configuration and builds the head from the configuration's head_config.
MDN_get_head_from_config(hp, b) ==
    LET hp2 == [hp EXCEPT !.head_config.input_dim = Some(b.output_dim)]
    IN  [hparams |-> hp2,
         head |-> [name |-> hp2.head, hparams |-> hp2.head_config]]

\* MDNModel._build_network
MDN_build_network(hp, ic) ==
    LET looked == getattr_models(hp.backbone_config_class)
        hint == [level |-> "error",
                 msg |-> "config class in backbone_config is not valid"]
    IN  IF looked.exc # "none"
        THEN Built(Exc(looked.exc, "no such attribute of models"), hp, ic, None, None,
                   IF looked.exc = "ModuleNotFoundError" THEN <<hint>> ELSE <<>>)
        ELSE IF ~Get(looked.value).is_model_config
        THEN Built(Exc("AssertionError",
                       "config_class should be a subclass of ModelConfig"),
                   hp, ic, None, None, <<>>)
        ELSE LET merged == safe_merge_config(hp.backbone_config_params, Get(ic))
                 b == CEB_build_network(merged)
             IN  IF b.error # "none"
                 THEN Built(Exc(b.error, "backbone construction failed"),
                            hp, ic, None, None, <<>>)
                 ELSE LET h == MDN_get_head_from_config(hp, Get(b.obj))
                      IN  Built(NoError, h.hparams, ic, b.obj,
                                Some(h.head), <<>>)

\* BaseModel.__init__: keeps the configuration as self.hparams and builds the
\* network of the class being constructed.
BaseModel_init(c, cfg, ic) ==
    IF c = "MDNModel" THEN MDN_build_network(cfg, ic)
    ELSE CEM_build_network(cfg)

\* Lines 31-34: the inferred_config keyword must be present; its value is kept.
kwargs_inferred_config(kw) ==
    IF kw.has_inferred_config
    THEN [exc |-> "none", value |-> kw.inferred_config]
    ELSE [exc |-> "AssertionError", value |-> None]

\* the task check accepting every task
task_is_supported_any(cfg) == cfg.task \in {"regression", "classification"}

\* Line 35
task_is_supported(cfg) == cfg.task = "regression"

\* MDNModel.__init__
MDNModel_init(cfg, kw) ==
    LET got == kwargs_inferred_config(kw)
    IN  IF got.exc # "none"
        THEN Built(Exc(got.exc,
                       "inferred_config not found in initialization arguments"),
                   cfg, None, None, None, <<>>)
        ELSE IF ~task_is_supported(cfg)
        THEN Built(Exc("AssertionError", "MDN is only implemented for Regression"),
                   cfg, got.value, None, None, <<>>)
        ELSE LET r == BaseModel_init("MDNModel", cfg, got.value)
             IN  IF r.error # NoError THEN r
                 ELSE IF r.config.output_dim # 1
                 THEN [r EXCEPT !.error =
                          Exc("AssertionError",
                              "MDN is not implemented for multi-targets")]
                 ELSE IF cfg.target_range # None
                 THEN [r EXCEPT !.log =
                          Append(@, [level |-> "warning",
                                     msg |-> "MDN does not use target range. Ignoring it."])]
                 ELSE r

----------------------------------------------------------------------------
(* MDNModel: loss, steps and epoch end *)

\* One call recorded in the trace of an operation
Ev(op, tag, idx) == [op |-> op, tag |-> tag, idx |-> idx]

\* torch.norm(v, p): the p-th root of the sum of the p-th powers of the
\* absolute values (the inputs are chosen so that the root is an integer).
Norm(v, p) ==
    LET n == SumSeq([k \in 1..Len(v) |-> Pow(Abs(v[k]), p)])
    IN  CHOOSE r \in 0..n : Pow(r, p) = n

\* torch.mean(-log_prob)
MeanNeg(lp) == SumSeq([k \in 1..Len(lp) |-> -lp[k]]) \div Len(lp)

\* calculate_loss with the pi and mu penalties nested under the sigma test
MDN_calculate_loss_nested(hd, a, tag) ==
    LET hp == hd.hparams
        nll == MeanNeg(a.log_prob)
        order == Get(hp.weight_regularization)
        sigma_l1_reg == IF hp.lambda_sigma > 0
                        THEN hp.lambda_sigma * Norm(a.sigma_params, order) ELSE 0
        pi_l1_reg == IF hp.lambda_sigma > 0 /\ hp.lambda_pi > 0
                     THEN hp.lambda_pi * Norm(a.pi_params, order) ELSE 0
        mu_l1_reg == IF hp.lambda_sigma > 0 /\ hp.lambda_mu > 0
                     THEN hp.lambda_mu * Norm(a.mu_params, order) ELSE 0
    IN  [loss |-> IF hp.weight_regularization # None
                  THEN nll + sigma_l1_reg + pi_l1_reg + mu_l1_reg
                  ELSE nll,
         events |-> <<Ev("calculate_loss", tag, -1),
                      [op |-> "self.log", tag |-> tag, idx |-> -1,
                       on_epoch |-> (tag = "valid") \/ (tag = "test"),
                       on_step |-> (tag = "train")]>>]

\* MDNModel.calculate_loss.  a holds the log-probabilities of the batch and
\* the current parameters of the head's sigma, pi and mu sub-networks.
MDN_calculate_loss(hd, a, tag) ==
    LET hp == hd.hparams
        nll == MeanNeg(a.log_prob)
        order == Get(hp.weight_regularization)
        sigma_l1_reg == IF hp.lambda_sigma > 0
                        THEN hp.lambda_sigma * Norm(a.sigma_params, order) ELSE 0
        pi_l1_reg == IF hp.lambda_pi > 0
                     THEN hp.lambda_pi * Norm(a.pi_params, order) ELSE 0
        mu_l1_reg == IF hp.lambda_mu > 0
                     THEN hp.lambda_mu * Norm(a.mu_params, order) ELSE 0
    IN  [loss |-> IF hp.weight_regularization # None
                  THEN nll + sigma_l1_reg + pi_l1_reg + mu_l1_reg
                  ELSE nll,
         events |-> <<Ev("calculate_loss", tag, -1),
                      [op |-> "self.log", tag |-> tag, idx |-> -1,
                       on_epoch |-> (tag = "valid") \/ (tag = "test"),
                       on_step |-> (tag = "train")]>>]

\* an operation that returned
Done(name, events, a, loss, returns) ==
    [name |-> name, events |-> events, args |-> a, loss |-> loss,
     returns |-> returns, exc |-> "none"]

NoArgs == [log_prob |-> <<>>, sigma_params |-> <<>>, pi_params |-> <<>>,
           mu_params |-> <<>>]
NoStep == Done("none", <<>>, NoArgs, None, <<>>)

\* an operation left by the exception e of its forward pass: nothing after
\* the call of the network runs
ForwardRaised(name, e) ==
    [name |-> name, events |-> <<Ev("forward", "", -1)>>, args |-> NoArgs,
     loss |-> None, returns |-> <<>>, exc |-> e]

PointPrediction(tag) ==
    <<Ev("generate_point_predictions", "", -1), Ev("calculate_metrics", tag, -1)>>

\* MDNModel.training_step; e is the exception of self(batch), "none" when it
\* returns
MDN_training_step(hd, e, a) ==
    IF e # "none" THEN ForwardRaised("training_step", e)
    ELSE LET l == MDN_calculate_loss(hd, a, "train")
         IN  Done("training_step",
                  <<Ev("forward", "", -1)>> \o l.events
                     \o (IF hd.hparams.speedup_training THEN <<>>
                         ELSE PointPrediction("train")),
                  a, Some(l.loss), <<"loss">>)

\* validation_step honouring speedup_training as training_step does
MDN_validation_step_speedup(hd, e, a) ==
    IF e # "none" THEN ForwardRaised("validation_step", e)
    ELSE LET l == MDN_calculate_loss(hd, a, "valid")
         IN  Done("validation_step",
                  <<Ev("forward", "", -1)>> \o l.events
                     \o (IF hd.hparams.speedup_training THEN <<>>
                         ELSE PointPrediction("valid")),
                  a, Some(l.loss), <<"y_hat", "y", "ret_value">>)

\* MDNModel.validation_step
MDN_validation_step(hd, e, a) ==
    IF e # "none" THEN ForwardRaised("validation_step", e)
    ELSE LET l == MDN_calculate_loss(hd, a, "valid")
         IN  Done("validation_step",
                  <<Ev("forward", "", -1)>> \o l.events
                     \o PointPrediction("valid"),
                  a, Some(l.loss), <<"y_hat", "y", "ret_value">>)

\* MDNModel.test_step
MDN_test_step(hd, e, a) ==
    IF e # "none" THEN ForwardRaised("test_step", e)
    ELSE LET l == MDN_calculate_loss(hd, a, "test")
         IN  Done("test_step",
                  <<Ev("forward", "", -1)>> \o l.events
                     \o PointPrediction("test"),
                  a, Some(l.loss), <<"y_hat", "y">>)

\* MDNModel.predict; e is the exception of self.forward(x)
MDN_predict(e) ==
    IF e # "none" THEN ForwardRaised("predict", e)
    ELSE Done("predict",
              <<Ev("forward", "", -1), Ev("generate_point_predictions", "", -1)>>,
              NoArgs, None, <<"y_hat">>)

\* MDNModel.sample
MDN_sample(e, ret_model_output) ==
    IF e # "none" THEN ForwardRaised("sample", e)
    ELSE Done("sample",
              <<Ev("forward", "", -1), Ev("generate_samples", "", -1)>>,
              NoArgs, None,
              IF ret_model_output THEN <<"samples", "ret_value">>
              ELSE <<"samples">>)

\* MDNModel.validation_epoch_end
MDN_validation_epoch_end(hp, hd, wandb_installed) ==
    LET do_log_logits == /\ hp.log_logits # None
                         /\ Get(hp.log_logits)
                         /\ hp.log_target = "wandb"
                         /\ wandb_installed
        ng == hd.hparams.num_gaussian
        means(name) == [i \in 1..ng |-> Ev("self.log", name, i - 1)]
    IN  Done("validation_epoch_end",
             means("mean_pi") \o means("mean_mu") \o means("mean_sigma")
               \o (IF do_log_logits
                   THEN <<Ev("wandb.log", "valid_logits", -1)>>
                          \o (IF hd.hparams.log_debug_plot
                              THEN <<Ev("wandb.log", "valid_pi", -1),
                                     Ev("wandb.log", "valid_mu", -1),
                                     Ev("wandb.log", "valid_sigma", -1)>>
                              ELSE <<>>)
                   ELSE <<>>),
             NoArgs, None, <<>>)

----------------------------------------------------------------------------
(* The configurations and inputs of the model *)

EmbWidths == {1, 2}
Cardinalities == {2}
Dropouts == {-1, 0, 5, 11}
LayersOut == {3}

EmbeddingDims == SeqsUpTo(Cardinalities \X EmbWidths, MaxCatCols)

Widths(dims) == [i \in 1..Len(dims) |-> dims[i][2]]

\* embedded_cat_dim is the sum of the embedding widths (what the data module
\* infers), or 0, or a value that disagrees with embedding_dims;
\* continuous_dim goes one beyond the columns a batch can have
CEConfigsOf(dims) ==
    {[embedded_cat_dim |-> ecd, continuous_dim |-> cd, embedding_dims |-> dims,
      embedding_dropout |-> p, batch_norm_continuous_input |-> bn,
      head |-> "LinearHead", head_config |-> [layers_out |-> lo],
      output_dim |-> 1] :
        ecd \in {0, SumSeq(Widths(dims)), SumSeq(Widths(dims)) + 1},
        cd \in 0..(MaxCont + 1), p \in Dropouts,
        bn \in BOOLEAN, lo \in LayersOut}

CEConfigs == UNION {CEConfigsOf(dims) : dims \in EmbeddingDims}

\* the batches: a batch of one row and a batch of more than one
BatchSizes == {1, 2}

\* the rows of k columns that hold one value of S in every column
RowsOf(k, S) == {[j \in 1..k |-> v] : v \in S}

\* the matrices of n such rows and at most c columns
Matrices(n, c, S) == UNION {[1..n -> RowsOf(k, S)] : k \in 0..c}

InputsOf(n) ==
    {[categorical |-> c, continuous |-> v] :
        c \in Matrices(n, MaxCatCols, 0..1), v \in Matrices(n, MaxCont, 0..1)}

Inputs == UNION {InputsOf(n) : n \in BatchSizes}

InferredConfigs ==
    {[embedded_cat_dim |-> SumSeq(Widths(d)), continuous_dim |-> cd,
      embedding_dims |-> d] :
        d \in {<<<<2, 2>>>>}, cd \in {0, 1}}

BackboneConfigParams ==
    {[embedding_dropout |-> 5, batch_norm_continuous_input |-> TRUE,
      head |-> "LinearHead", head_config |-> [layers_out |-> lo]] :
        lo \in LayersOut}

NoKwargs == [has_inferred_config |-> FALSE, inferred_config |-> None]
\* the keyword arguments of MDNModel: inferred_config omitted, or a
\* configuration
AllKwargs ==
    {NoKwargs} \cup
    {[has_inferred_config |-> TRUE, inferred_config |-> ic] :
        ic \in {Some(i) : i \in InferredConfigs}}
GoodKwargs == {k \in AllKwargs : k.has_inferred_config}

BackboneConfigClasses ==
    {"CategoryEmbeddingModelConfig", "CategoryEmbeddingModel", "NoSuchConfig"}

HeadConfig(wr, ls, lp, lm, sp, ng, dp) ==
    [input_dim |-> None, weight_regularization |-> wr, lambda_sigma |-> ls,
     lambda_pi |-> lp, lambda_mu |-> lm, speedup_training |-> sp,
     num_gaussian |-> ng, log_debug_plot |-> dp]

DefaultHeadConfig == HeadConfig(None, 0, 0, 0, FALSE, 1, FALSE)

Lambdas == (-1)..MaxLambda
WeightRegularizations == {None, Some(1), Some(2)}

LossHeadConfigs ==
    {HeadConfig(wr, ls, lp, lm, sp, 1, FALSE) :
        wr \in WeightRegularizations, ls \in Lambdas, lp \in Lambdas,
        lm \in Lambdas, sp \in BOOLEAN}

LoggingHeadConfigs ==
    {HeadConfig(None, 0, 0, 0, FALSE, ng, dp) :
        ng \in 1..MaxGaussian, dp \in BOOLEAN}

MDNConfig(task, od, tr, bcc, bcp, hc, ll, lt) ==
    [task |-> task, output_dim |-> od, target_range |-> tr,
     backbone_config_class |-> bcc, backbone_config_params |-> bcp,
     head |-> "MixtureDensityHead", head_config |-> hc,
     log_logits |-> ll, log_target |-> lt]

Scenario(c, cfg, kw, w) == [cls |-> c, config |-> cfg, kwargs |-> kw, wandb |-> w]

\* every way to call the constructor, with the head left at its defaults
ConstructionScenarios ==
    {Scenario("MDNModel",
              MDNConfig(task, od, tr, bcc, bcp, DefaultHeadConfig, None, "tensorboard"),
              kw, FALSE) :
        task \in {"regression", "classification"}, od \in 1..MaxOutputDim,
        tr \in {None, Some(<<0, 1>>)}, bcc \in BackboneConfigClasses,
        bcp \in BackboneConfigParams, kw \in AllKwargs}

\* every head configuration the loss reads, on a constructor call that succeeds
LossScenarios ==
    {Scenario("MDNModel",
              MDNConfig("regression", 1, None, "CategoryEmbeddingModelConfig",
                        bcp, hc, None, "tensorboard"),
              kw, FALSE) :
        bcp \in BackboneConfigParams, hc \in LossHeadConfigs,
        kw \in {k \in GoodKwargs : Get(k.inferred_config).continuous_dim = 0}}

\* every setting the epoch-end logging reads
LoggingScenarios ==
    {Scenario("MDNModel",
              MDNConfig("regression", 1, None, "CategoryEmbeddingModelConfig",
                        bcp, hc, ll, lt),
              kw, w) :
        bcp \in BackboneConfigParams, hc \in LoggingHeadConfigs,
        ll \in {None, Some(TRUE), Some(FALSE)}, lt \in {"wandb", "tensorboard"},
        w \in BOOLEAN,
        kw \in {k \in GoodKwargs : Get(k.inferred_config).continuous_dim = 0}}

CEScenarios ==
    {Scenario("CategoryEmbeddingModel", cfg, NoKwargs, FALSE) : cfg \in CEConfigs}

Scenarios ==
    ConstructionScenarios \cup LossScenarios \cup LoggingScenarios \cup CEScenarios

ParamVecs == {<<3, -4>>, <<0, 2>>}
LogProbs == {<<-1, -3>>, <<-2, -4>>}

LossArgs ==
    {[log_prob |-> lp, sigma_params |-> s, pi_params |-> p, mu_params |-> m] :
        lp \in LogProbs, s \in ParamVecs, p \in ParamVecs, m \in ParamVecs}

----------------------------------------------------------------------------
(* The state machine *)

Init ==
    \E s \in Scenarios :
        /\ cls = s.cls
        /\ config = s.config
        /\ kwargs = s.kwargs
        /\ WANDB_INSTALLED = s.wandb
        /\ pc = "new"
        /\ error = NoError
        /\ inferred_config = None
        /\ backbone = None
        /\ head = None
        /\ log = <<>>
        /\ step = NoStep
        /\ fwd = None

Finish(r) ==
    /\ pc' = IF r.error = NoError THEN "constructed" ELSE "failed"
    /\ error' = r.error
    /\ config' = r.config
    /\ inferred_config' = r.inferred_config
    /\ backbone' = r.backbone
    /\ head' = r.head
    /\ log' = log \o r.log
    /\ UNCHANGED <<cls, kwargs, WANDB_INSTALLED, step, fwd>>

\* MDNModel(config, **kwargs)
ConstructMDNModel ==
    /\ cls = "MDNModel"
    /\ pc = "new"
    /\ Finish(MDNModel_init(config, kwargs))

\* CategoryEmbeddingModel(config, **kwargs)
ConstructCategoryEmbeddingModel ==
    /\ cls = "CategoryEmbeddingModel"
    /\ pc = "new"
    /\ Finish(BaseModel_init(cls, config, None))

Ready(c) == cls = c /\ pc = "constructed"

\* an operation of the model that does not run the backbone
Ran(s) ==
    /\ step' = s
    /\ fwd' = None
    /\ UNCHANGED <<cls, pc, error, config, kwargs, inferred_config, backbone,
                   head, log, WANDB_INSTALLED>>

\* A training pass is taken while the batch-norm layer has counted fewer than
\* MaxTrainingPasses batches.
Modes(b) == {t \in BOOLEAN : t => Tracked(b) < MaxTrainingPasses}

\* a call of the backbone: f is what it computed
Called(f) ==
    /\ fwd' = Some(f)
    /\ backbone' = Some(f.after)
    /\ step' = NoStep
    /\ UNCHANGED <<cls, pc, error, config, kwargs, inferred_config,
                   head, log, WANDB_INSTALLED>>

\* backbone.forward(x) on the backbone of a constructed
\* CategoryEmbeddingModel, in training or evaluation mode, any number of
\* times.  A training pass leaves the batch in the running
\* statistics of the batch-norm layer, which later passes read.
Forward ==
    /\ Ready("CategoryEmbeddingModel")
    /\ \E x \in Inputs, training \in Modes(Get(backbone)) :
          \E mask \in SUBSET DropoutPositions(Get(backbone), x, training) :
             Called(CEB_forward(Get(backbone), x, mask, training))

\* What self(batch) or self.forward(x) leaves, for every batch and mode: the
\* backbone after the pass and the exception the pass raised ("none" when it
\* returned).  A pass that raises leaves the backbone as the layers it ran
\* left it.  The dropout draw changes neither.
AfterForward(b) ==
    {[after |-> f.after, exc |-> f.out.exc] :
        f \in {CEB_forward(b, x, {}, t) : x \in Inputs, t \in Modes(b)}}

\* the loss arguments of a step: the head outputs of a pass that returned
LossArgsAfter(r) == IF r.exc = "none" THEN LossArgs ELSE {NoArgs}

\* an operation of the model that starts with self(batch) or self.forward(x):
\* s is the operation as it returned or as the exception of the pass left it
RanAfterForward(b, s) ==
    /\ step' = s
    /\ fwd' = None
    /\ backbone' = Some(b)
    /\ UNCHANGED <<cls, pc, error, config, kwargs, inferred_config,
                   head, log, WANDB_INSTALLED>>

ExtractEmbedding ==
    /\ Ready("CategoryEmbeddingModel")
    /\ Ran(Done("extract_embedding", <<>>, NoArgs, None,
                extract_embedding(Get(backbone))))

TrainingStep ==
    /\ Ready("MDNModel")
    /\ \E r \in AfterForward(Get(backbone)) :
          \E a \in LossArgsAfter(r) :
             RanAfterForward(r.after, MDN_training_step(Get(head), r.exc, a))

ValidationStep ==
    /\ Ready("MDNModel")
    /\ \E r \in AfterForward(Get(backbone)) :
          \E a \in LossArgsAfter(r) :
             RanAfterForward(r.after, MDN_validation_step(Get(head), r.exc, a))

TestStep ==
    /\ Ready("MDNModel")
    /\ \E r \in AfterForward(Get(backbone)) :
          \E a \in LossArgsAfter(r) :
             RanAfterForward(r.after, MDN_test_step(Get(head), r.exc, a))

ValidationEpochEnd ==
    /\ Ready("MDNModel")
    /\ Ran(MDN_validation_epoch_end(config, Get(head), WANDB_INSTALLED))

Predict ==
    /\ Ready("MDNModel")
    /\ \E r \in AfterForward(Get(backbone)) :
          RanAfterForward(r.after, MDN_predict(r.exc))

Sample ==
    /\ Ready("MDNModel")
    /\ \E r \in AfterForward(Get(backbone)), ret_model_output \in BOOLEAN :
          RanAfterForward(r.after, MDN_sample(r.exc, ret_model_output))

Next ==
    \/ ConstructMDNModel
    \/ ConstructCategoryEmbeddingModel
    \/ Forward
    \/ ExtractEmbedding
    \/ TrainingStep
    \/ ValidationStep
    \/ TestStep
    \/ ValidationEpochEnd
    \/ Predict
    \/ Sample

Spec == Init /\ [][Next]_vars

----------------------------------------------------------------------------
(* Properties *)

IsMDN == cls = "MDNModel"
IsCE == cls = "CategoryEmbeddingModel"

MultiTargetError ==
    Exc("AssertionError", "MDN is not implemented for multi-targets")

\* C1 as stated: constructing an MDNModel whose task is not "regression" or
\* whose output_dim is not 1 fails with an assertion error, and a construction
\* that succeeds has task = "regression" and output_dim = 1 (read for calls
\* that pass a non-null inferred_config).
C1_AssertionForEveryBadConfig ==
    (IsMDN /\ pc # "new" /\ kwargs \in GoodKwargs) =>
        /\ (config.task # "regression" \/ config.output_dim # 1)
              => (pc = "failed" /\ error.exc = "AssertionError")
        /\ pc = "constructed"
              => (config.task = "regression" /\ config.output_dim = 1)

\* C1 (amended): construction never succeeds when the task is not
\* "regression" (an assertion error) or output_dim is not 1; for output_dim
\* the error is the multi-target assertion exactly when the steps before it
\* (keyword check, task check, base-class initialisation with the network
\* build) completed, otherwise the earlier step's own error propagates.  A
\* construction that succeeds has task = "regression" and output_dim = 1.
C1_ConstructionRejectsTaskAndOutputDim ==
    (IsMDN /\ pc # "new") =>
        /\ config.task # "regression"
              => (pc = "failed" /\ error.exc = "AssertionError"
                  /\ backbone = None /\ head = None)
        /\ config.output_dim # 1
              => /\ pc = "failed"
                 /\ (backbone # None /\ head # None) <=> (error = MultiTargetError)
        /\ pc = "constructed"
              => (config.task = "regression" /\ config.output_dim = 1)

C1_Witness ==
    /\ IsMDN /\ pc = "failed"
    /\ config.task = "regression" /\ config.output_dim = 2
    /\ error = MultiTargetError

Hint ==
    [level |-> "error", msg |-> "config class in backbone_config is not valid"]

\* C3: when backbone_config_class cannot be resolved among the registered
\* models (on a call that reaches the lookup), construction fails with a lookup failure, the corrective hint has
\* been logged when the failure propagates, and no backbone or head is built.
C3_LookupFailureWithHint ==
    (/\ IsMDN /\ pc # "new"
     /\ kwargs \in GoodKwargs /\ config.task = "regression"
     /\ config.backbone_config_class \notin DOMAIN Models) =>
        /\ pc = "failed"
        /\ error.exc \in {"AttributeError", "ModuleNotFoundError"}
        /\ \E i \in 1..Len(log) : log[i] = Hint
        /\ backbone = None /\ head = None

\* the last operation was a pass of the backbone
Forwarded == pc = "constructed" /\ fwd # None

\* the configuration the backbone was built from
Hp == Get(backbone).hparams

\* the pass f, made again on the backbone b with another batch and draw
Again(f, b, x, mask) == CEB_forward(b, x, mask, f.training)

SameResult(f, g) ==
    f.unpacked = g.unpacked /\ f.out = g.out /\ f.after = g.after

Uses(f, ops) == \E i \in 1..Len(f.unpacked.applied) : f.unpacked.applied[i] \in ops

\* C4: with embedded_cat_dim = 0 and continuous_dim >= 1, two batches that
\* agree on the continuous part give the same result in the same mode (the
\* same features or the same error, and the same batch-norm layer afterwards)
\* whatever the categorical part is; the dropout layer draws nothing, and no
\* embedding, no embedding dropout and no concatenation is applied.
C4_OnlyContinuous ==
    (Forwarded /\ Hp.embedded_cat_dim = 0 /\ Hp.continuous_dim >= 1) =>
        LET f == Get(fwd)
        IN  /\ \A x2 \in Inputs :
                  x2.continuous = f.x.continuous
                     => /\ DropoutPositions(f.before, x2, f.training) = {}
                        /\ SameResult(Again(f, f.before, x2, {}), f)
            /\ f.mask = {}
            /\ ~Uses(f, {"embedding", "cat_embeddings", "embd_dropout",
                         "cat_continuous"})
            /\ Get(backbone).embd_dropout = None

C4_Witness ==
    /\ Forwarded /\ Hp.embedded_cat_dim = 0 /\ Hp.continuous_dim >= 1
    /\ Len(Hp.embedding_dims) > 0 /\ Hp.embedding_dropout > 0
    /\ Hp.batch_norm_continuous_input
    /\ ~Get(fwd).training
    /\ Get(Get(fwd).before.normalizing_batch_norm).seen # <<>>
    /\ Cols(Get(fwd).x.categorical) > 0
    /\ Get(fwd).unpacked.kind = "tensor"
    /\ Get(fwd).out.kind = "tensor"

\* C5: with continuous_dim = 0 and embedded_cat_dim >= 1, two batches that
\* agree on the categorical part give the same result in the same mode and
\* under the same dropout draw whatever the continuous part is; batch
\* normalization is not applied even when batch_norm_continuous_input is set
\* (the layer is left as it was, also by a one-row training batch), and the
\* embedded part is not concatenated with the continuous part.
C5_OnlyCategorical ==
    (Forwarded /\ Hp.continuous_dim = 0 /\ Hp.embedded_cat_dim >= 1) =>
        LET f == Get(fwd)
        IN  /\ \A x2 \in Inputs :
                  x2.categorical = f.x.categorical
                     => /\ DropoutPositions(f.before, x2, f.training)
                              = DropoutPositions(f.before, f.x, f.training)
                        /\ SameResult(Again(f, f.before, x2, f.mask), f)
            /\ ~Uses(f, {"normalizing_batch_norm", "cat_continuous"})
            /\ f.after = f.before

C5_Witness ==
    /\ Forwarded /\ Hp.continuous_dim = 0 /\ Hp.embedded_cat_dim >= 1
    /\ Hp.batch_norm_continuous_input
    /\ Get(fwd).training
    /\ Rows(Get(fwd).x.continuous) = 1
    /\ Cols(Get(fwd).x.continuous) > 0
    /\ Get(fwd).mask # {}
    /\ Get(fwd).unpacked.kind = "tensor"
    /\ Get(fwd).out.kind = "tensor"

\* C6 as stated: no operation writes any field of the configuration.
C6_ConfigNeverWritten == [][config' = config]_vars

\* C6 (amended): nothing writes the configuration once construction is over,
\* whether the operation returns or the exception of its forward pass leaves
\* it, and construction writes one field only: MDNModel's head creation sets
\* head_config.input_dim to the backbone's output width.  Every other field
\* keeps the caller's value, and the CategoryEmbedding classes write nothing.
C6_OnlyInputDimWrittenAtConstruction ==
    [][/\ (pc # "new" \/ IsCE) => config' = config
       /\ (pc = "new" /\ IsMDN) =>
             /\ config' = [config EXCEPT !.head_config.input_dim =
                                            config'.head_config.input_dim]
             /\ config' # config =>
                   /\ head' # None
                   /\ config'.head_config.input_dim
                         = Some(Get(backbone').output_dim)]_vars

C6_Witness ==
    /\ IsMDN /\ pc = "constructed"
    /\ config.head_config.input_dim # None
    /\ step.name = "training_step" /\ step.exc = "ValueError"
    /\ Tracked(Get(backbone)) = 1

IsLossStep == IsMDN /\ step.name \in {"training_step", "validation_step", "test_step"}

TagOf(name) ==
    IF name = "training_step" THEN "train"
    ELSE IF name = "validation_step" THEN "valid" ELSE "test"

At(ev, op) == {i \in 1..Len(ev) : ev[i].op = op}

Penalty(hp, lambda, params) ==
    IF hp.weight_regularization # None /\ lambda > 0
    THEN lambda * Norm(params, Get(hp.weight_regularization))
    ELSE 0

\* the step reached calculate_loss: its forward pass returned
LossComputed == IsLossStep /\ At(step.events, "calculate_loss") # {}

\* C7: the loss calculate_loss returns is the mean negative log-likelihood
\* plus, for each of sigma, pi and mu on its own,
\* lambda * norm(parameters, weight_regularization) exactly when
\* weight_regularization is not null and that lambda is > 0.  (A step whose
\* forward pass raises never calls calculate_loss and has no loss.)
C7_LossIsNllPlusIndependentPenalties ==
    /\ (IsLossStep /\ ~LossComputed) => (step.exc # "none" /\ step.loss = None)
    /\ LossComputed =>
        LET hp == Get(head).hparams
            a == step.args
        IN  step.loss = Some(MeanNeg(a.log_prob)
                             + Penalty(hp, hp.lambda_sigma, a.sigma_params)
                             + Penalty(hp, hp.lambda_pi, a.pi_params)
                             + Penalty(hp, hp.lambda_mu, a.mu_params))

C7_Witness ==
    /\ LossComputed
    /\ Get(head).hparams.weight_regularization = Some(2)
    /\ Get(head).hparams.lambda_sigma = 0
    /\ Get(head).hparams.lambda_pi > 0
    /\ Get(head).hparams.lambda_mu < 0
    /\ step.loss = Some(MeanNeg(step.args.log_prob)
                        + Get(head).hparams.lambda_pi * Norm(step.args.pi_params, 2))

\* C8: when embedded_cat_dim is the sum of the embedding widths and the input
\* carries continuous_dim continuous columns, unpack_input hands the
\* feed-forward block a vector of width embedded_cat_dim + continuous_dim,
\* also when the categorical part, the continuous part or both are empty.
C8_FixedWidthFeatureVector ==
    (/\ Forwarded
     /\ Hp.embedded_cat_dim = SumSeq(Widths(Hp.embedding_dims))
     /\ Hp.embedding_dropout \in 0..10
     /\ Cols(Get(fwd).x.continuous) = Hp.continuous_dim
     /\ Get(fwd).unpacked.kind # "error") =>
        /\ Get(fwd).unpacked.kind = "tensor"
        /\ \A r \in 1..Rows(Get(fwd).unpacked.val) :
              /\ Len(Get(fwd).unpacked.val[r])
                    = Hp.embedded_cat_dim + Hp.continuous_dim
              /\ Len(Get(fwd).unpacked.val[r])
                    = Get(backbone).linear_layers.in_units

\* the order of a step that went past its forward pass
OrderedAfterForward(ev, tag, skipped) ==
    /\ At(ev, "calculate_loss") = {2}
    /\ ev[2].tag = tag
    /\ skipped => /\ At(ev, "generate_point_predictions") = {}
                  /\ At(ev, "calculate_metrics") = {}
    /\ ~skipped => /\ \E i \in 3..Len(ev), j \in 3..Len(ev) :
                         /\ i < j
                         /\ At(ev, "generate_point_predictions") = {i}
                         /\ At(ev, "calculate_metrics") = {j}
                         /\ ev[j].tag = tag

Skipped == step.name = "training_step" /\ Get(head).hparams.speedup_training

\* C9 as stated: in each training, validation and test step the forward pass
\* runs first, the loss is then computed exactly once with the step's tag,
\* and the point prediction and the metrics follow the loss, skipped only in
\* the training step and only when speedup_training is set.
C9_LossOnceInEveryStep ==
    IsLossStep =>
        /\ step.events[1].op = "forward"
        /\ At(step.events, "forward") = {1}
        /\ OrderedAfterForward(step.events, TagOf(step.name), Skipped)

\* C9 (amended): in each training, validation and test step the forward pass
\* runs first.  When it returns, the loss is then computed exactly once with
\* the step's tag, and the point prediction and the metrics follow the loss,
\* skipped only in the training step and only when speedup_training is set.
\* When it raises, the exception leaves the step: the loss, the point
\* prediction and the metrics are not computed and nothing is returned.
C9_StepOrder ==
    IsLossStep =>
        /\ step.events[1].op = "forward"
        /\ At(step.events, "forward") = {1}
        /\ step.exc = "none"
              => OrderedAfterForward(step.events, TagOf(step.name), Skipped)
        /\ step.exc # "none"
              => /\ step.events = <<Ev("forward", "", -1)>>
                 /\ step.loss = None
                 /\ step.returns = <<>>

C9_Witness ==
    /\ IsLossStep /\ step.name = "validation_step"
    /\ step.exc = "none"
    /\ Get(head).hparams.speedup_training
    /\ At(step.events, "calculate_metrics") # {}

\* C10: every optional layer a forward pass applies was created by
\* _build_network: the dropout layer exists whenever unpack_input reaches it
\* and the batch-normalization layer exists whenever unpack_input reaches it.
C10_AppliedLayersWereBuilt ==
    pc = "constructed" =>
        LET b == Get(backbone)
            hp == b.hparams
        IN  /\ (hp.embedded_cat_dim # 0 /\ hp.embedding_dropout > 0)
                  => b.embd_dropout # None
            /\ (hp.continuous_dim # 0 /\ hp.batch_norm_continuous_input)
                  => b.normalizing_batch_norm # None
            /\ fwd # None =>
                  /\ Get(fwd).unpacked.exc # "AttributeError"
                  /\ Uses(Get(fwd), {"embd_dropout"}) => b.embd_dropout # None
                  /\ Uses(Get(fwd), {"normalizing_batch_norm"})
                        => b.normalizing_batch_norm # None

C10_Witness ==
    /\ Forwarded
    /\ Hp.continuous_dim # 0 /\ Hp.batch_norm_continuous_input
    /\ Get(fwd).training
    /\ Uses(Get(fwd), {"embd_dropout"})
    /\ Uses(Get(fwd), {"normalizing_batch_norm"})
    /\ Get(fwd).unpacked.kind = "tensor"

====
